---- MODULE Spec2Model ----
(***************************************************************************)
(* Content lifecycle of the social-feed backend: the posts collection, the *)
(* per-author postsCount aggregate, the hourly cleanup sweep               *)
(* (services/postCleanupService.js) and the request handlers that write    *)
(* posts (controllers/postsController_old.js, class PostsController).      *)
(*                                                                         *)
(* Time is counted in units of 24 hours: the code compares millisecond     *)
(* timestamps only against the thresholds 24h and 7 days, so a unit of 24h *)
(* keeps "younger than", "exactly at" and "older than" each threshold      *)
(* apart.  Every await of the JavaScript code is a separate step, so the   *)
(* handlers and the sweeps interleave at exactly the points where the      *)
(* event loop can switch.                                                  *)
(***************************************************************************)
EXTENDS Integers, FiniteSets, Sequences, TLC

\* ---- bounds of the exploration ----
MaxTime == 8
MaxOverlapTime == 2
MaxPosts == 2
MaxCreateTime == 1
\* how many of these events one behaviour may contain in total: an image upload, an
\* updatePost or toggleLike request, a thrown sweep, a sweep started while another
\* one runs, a removal by the TTL monitor
MaxExtras == 1
\* how many uuidv4() values the uploads of one behaviour may draw, two per stored file
MaxUuids == 4
\* how many files one upload request carries
MaxBatch == 2
\* how many posts the TypeScript flow creates in one behaviour
MaxTsPosts == 2
\* how far metadata.likesCount may move from zero
MaxLikes == 2

\* config.images.maxFileSize: 5 * 1024 * 1024 bytes (config/config.js line 70)
MaxFileSize == 5242880

\* ---- program constants, in units of 24 hours ----
\* 24 * 60 * 60 * 1000 ms (postCleanupService.js line 34)
TwentyFourHoursMs == 1
\* 7 * 24 * 60 * 60 * 1000 ms (postCleanupService.js line 81)
SevenDaysMs == 7
\* twentyFourHours of the pre-save hook (Post.js line 110)
twentyFourHours == 1
\* expireAfterSeconds: 86400 of the expiresAt index (Post.js line 78)
expireAfterSeconds == 1

Authors == {"a1", "a2"}
Contents == {"c0", "c1"}
\* the three triggers of a sweep: cron.schedule, setTimeout(5000), manualCleanup
Sweeps == {"cron", "startup", "manual"}
\* the request slots of the posts routes; Single is the one slot used where one
\* request at a time is enough
Reqs == {"r1", "r2"}
Single == {"r1"}
PostIds == 1..MaxPosts

\* paths declared by postSchema (models/Post.js lines 3-79) plus the
\* timestamps option (line 81); deletedAt is not among them
SchemaPaths == {"content", "author", "category", "tags", "images", "likes",
                "likesCount", "commentsCount", "isActive", "expiresAt",
                "createdAt", "updatedAt"}

VARIABLES
    now,         \* Date.now(), in units of 24h
    posts,       \* the posts collection: _id -> document
    nextId,      \* number of post documents inserted so far (ids are never reused)
    postsCount,  \* User.postsCount of each author
    files,       \* files in the uploads directory: <<asset id, rendition>>
    sweep,       \* per trigger: the execution of cleanupExpiredPosts in progress
    req,         \* per request slot: the request handler in progress
    flips,       \* history: how many times an updateMany modified each post
    pending,     \* history: authors whose posts a failed sweep expired without
                 \* rewriting their counter
    startupFired, \* the setTimeout of start() has fired
    nextAsset,   \* number of uuidv4() values drawn so far
    extras,      \* number of the events MaxExtras bounds that have happened so far
    softTotal,   \* history: sum of the modifiedCount every updateMany reported (line 64)
    running,     \* the node process is alive
    thrown,      \* history: the triggers whose execution of the sweep has thrown
    up,          \* the upload request in progress (routes/images.js, multiple-upload)
    del,         \* per slot: the DELETE /api/images/:filename request in progress
    pixels,      \* width and height of every image file the upload pipeline wrote
    acked,       \* history: the asset descriptors sent in 201 responses
    resize,      \* the last GET /api/images/:filename/resize request and its status
    tsPosts,     \* TypeScript flow: the posts collection
    tsCount,     \* TypeScript flow: stats.postsCount of each user
    tsNextId,    \* TypeScript flow: number of posts inserted so far
    tsReq        \* TypeScript flow: per slot, the request handler in progress

vars == <<now, posts, nextId, postsCount, files, sweep, req, flips, pending, startupFired, nextAsset, extras, softTotal, running, thrown, up, del, pixels, acked, resize, tsPosts, tsCount, tsNextId, tsReq>>

\* the state of the scheduler's process and the state of the image routes
schedVars == <<running, thrown>>
assetVars == <<up, del, pixels, acked>>
\* the state of the TypeScript post flow (src/src)
tsVars == <<tsPosts, tsCount, tsNextId, tsReq>>

\* ---- helpers ----
Min(S) == CHOOSE x \in S : \A y \in S : x <= y

Renditions == {"original", "small", "medium", "large"}

AssetFiles(a) == {<<a, k>> : k \in Renditions}

\* Post.countDocuments({author, isActive: true})
ActiveCount(db, a) == Cardinality({p \in DOMAIN db : db[p].author = a /\ db[p].isActive})

\* mongoose strict mode: an update keeps only the paths the schema declares
StrictCast(update) == [k \in (DOMAIN update) \cap SchemaPaths |-> update[k]]

\* apply a cast $set document to a stored document
ApplySet(doc, update) ==
    [k \in (DOMAIN doc) \cup (DOMAIN update) |-> IF k \in DOMAIN update THEN update[k] ELSE doc[k]]

\* the filter with $lte in place of $lt
ExpiredFilter_Inclusive(db, t) == {p \in DOMAIN db : db[p].createdAt <= t /\ db[p].isActive}

\* the filter without its isActive condition
ExpiredFilter_Unconditional(db, t) == {p \in DOMAIN db : db[p].createdAt < t}

\* the filter of Post.find and Post.updateMany: { createdAt: {$lt: t}, isActive: true }
ExpiredFilter(db, t) == {p \in DOMAIN db : db[p].createdAt < t /\ db[p].isActive}

\* the filter of Post.deleteMany: { createdAt: {$lt: t}, isActive: false }
HardDeleteFilter(db, t) == {p \in DOMAIN db : db[p].createdAt < t /\ ~db[p].isActive}

\* [...new Set(expiredPosts.map(post => post.author.toString()))]:
\* the distinct authors in the order the found posts (by _id) first name them
RECURSIVE AuthorIdsOf(_, _)
AuthorIdsOf(db, S) ==
    IF S = {} THEN <<>>
    ELSE LET p == Min(S)
             a == db[p].author
         IN <<a>> \o AuthorIdsOf(db, {q \in S : db[q].author # a})

Range(s) == {s[i] : i \in 1..Len(s)}

\* what an execution returned: nothing yet, undefined (line 44), the record of
\* lines 91-95, or a thrown error
Outcome(kind, n, m, k) == [kind |-> kind, softDeleted |-> n, hardDeleted |-> m, usersUpdated |-> k]

\* the locals of one execution of cleanupExpiredPosts; clean, moved, owes and drift
\* are history: no other operation wrote since it started, the authors whose posts
\* its updateMany modified, the authors pending when it started, and whether a
\* counter of an author it found differed from the author's active posts then
IdleSweep == [pc |-> "idle", twentyFourHoursAgo |-> 0, authorIds |-> <<>>, i |-> 0,
              activePostCount |-> 0, modifiedCount |-> 0, result |-> Outcome("none", 0, 0, 0),
              clean |-> TRUE, moved |-> {}, owes |-> {}, drift |-> FALSE]

\* one more of the bounded events happens
Extra == extras < MaxExtras /\ extras' = extras + 1

\* the handler's locals: the operation, its position, req.params.id, req.user.userId
\* and the fields of the document it read that it uses later
IdleReq == [op |-> "none", pc |-> "idle", id |-> 0, user |-> "none", likes |-> 0,
            images |-> {}]

\* cleanupExpiredPosts is between its first and its last database call
InProgress(s) == sweep[s].pc \in {"update", "count", "write", "purge"}

\* history: an operation other than sweep self wrote posts or counters
Dirty(sw, self) == [s \in Sweeps |->
    IF s # self /\ sw[s].pc # "idle" THEN [sw[s] EXCEPT !.clean = FALSE] ELSE sw[s]]

\* ---- the image routes: configuration and request inputs ----

\* config.images.allowedTypes (config/config.js line 71)
AllowedTypes == {"image/jpeg", "image/jpg", "image/png", "image/gif", "image/webp"}

\* the sizes without the last one
ThumbnailSizes_NoLarge == <<"small", "medium">>

\* Object.keys(config.images.thumbnailSizes) in insertion order (config.js 73-77)
ThumbnailSizes == <<"small", "medium", "large">>

\* config.images.thumbnailSizes: width and height of each size
ThumbnailDims == [small |-> <<150, 150>>, medium |-> <<400, 400>>, large |-> <<800, 600>>]

\* what a client declares for one file of a multipart upload: the mime type, the
\* number of bytes, and the width and height of the picture
MimeTypes == {"image/png", "application/pdf"}
FileSizes == {MaxFileSize, MaxFileSize + 1}
SourceDims == {<<1000, 800>>, <<100, 100>>}
FileInputs == [mimetype : MimeTypes, size : FileSizes, dims : SourceDims]
Batches == UNION {[1..n -> FileInputs] : n \in 1..MaxBatch}

\* the I/O outcomes of fs.unlink on a file that exists
IoOutcomes == {"ok", "EIO"}

DelReqs == {"d1", "d2"}

\* the locals of the upload request: req.files, the loop positions of processImage
\* (file i, thumbnail size k), thumbnails, processedImages and the status sent
IdleUpload == [pc |-> "idle", files |-> <<>>, i |-> 0, k |-> 0, thumbnails |-> <<>>,
               processedImages |-> <<>>, status |-> 0, batch |-> <<>>]

\* the locals of deleteImage: req.params.filename, the loop position k, the status
\* sent; fault, solo and existed are history: an unlink of an existing file failed,
\* no other delete of the same filename was in progress since this one started,
\* and fs.access found the file
IdleDelete == [pc |-> "idle", filename |-> 0, k |-> 0, status |-> 0, fault |-> FALSE,
               solo |-> TRUE, existed |-> FALSE]

\* req.params.filename, req.query.width, req.query.height and the status sent
IdleResize == [filename |-> 0, width |-> "absent", height |-> "absent", status |-> 0]

\* ---- the TypeScript post flow (src/src/controllers/postsController.ts) ----
TsReqs == {"t1", "t2"}
TsPostIds == 1..MaxTsPosts

\* the handler's locals: the operation, its position, req.params.id,
\* req.user.userId, isDraft of the post and hasLiked (line 377)
IdleTsReq == [op |-> "none", pc |-> "idle", id |-> 0, user |-> "none", isDraft |-> FALSE,
              hasLiked |-> FALSE]

Init ==
    /\ now = 0
    /\ posts = <<>>
    /\ nextId = 0
    /\ postsCount = [a \in Authors |-> 0]
    /\ files = {}
    /\ sweep = [s \in Sweeps |-> IdleSweep]
    /\ req = [r \in Reqs |-> IdleReq]
    /\ flips = [p \in PostIds |-> 0]
    /\ pending = {}
    /\ startupFired = FALSE
    /\ nextAsset = 0
    /\ extras = 0
    /\ softTotal = 0
    /\ running = TRUE
    /\ thrown = {}
    /\ up = IdleUpload
    /\ del = [d \in DelReqs |-> IdleDelete]
    /\ pixels = <<>>
    /\ acked = {}
    /\ resize = IdleResize
    /\ tsPosts = <<>>
    /\ tsCount = [a \in Authors |-> 0]
    /\ tsNextId = 0
    /\ tsReq = [r \in TsReqs |-> IdleTsReq]

Tick(limit) ==
    /\ now < limit
    /\ now' = now + 1
    /\ UNCHANGED <<posts, nextId, postsCount, files, sweep, req, flips, pending, startupFired, nextAsset, extras, softTotal, schedVars, assetVars, resize, tsVars>>

\* ---- the sweep: PostCleanupService.cleanupExpiredPosts ----

\* a trigger fires: the hourly cron tick, the startup timer (once), or manualCleanup
CanStart(s) ==
    /\ running
    /\ sweep[s].pc = "idle"
    /\ (s = "startup" => ~startupFired)

\* lines 34-50: compute the threshold, Post.find, early return or authorIds
SweepFind(s) ==
    /\ CanStart(s)
    /\ LET t == now - TwentyFourHoursMs
           expiredPosts == ExpiredFilter(posts, t)
           authorIds == AuthorIdsOf(posts, expiredPosts)
       IN IF expiredPosts = {}
          THEN sweep' = [sweep EXCEPT ![s] =
                   [IdleSweep EXCEPT !.pc = "return", !.result = Outcome("undefined", 0, 0, 0)]]
          ELSE sweep' = [sweep EXCEPT ![s] =
                   [IdleSweep EXCEPT !.pc = "update", !.twentyFourHoursAgo = t,
                                     !.authorIds = authorIds, !.owes = pending,
                                     !.drift = \E a \in Range(authorIds) :
                                                  postsCount[a] # ActiveCount(posts, a)]]
    /\ startupFired' = (startupFired \/ s = "startup")
    /\ IF \E x \in Sweeps : InProgress(x) THEN Extra ELSE UNCHANGED extras
    /\ UNCHANGED <<now, posts, nextId, postsCount, files, req, flips, pending, nextAsset, softTotal, schedVars, assetVars, resize, tsVars>>

\* lines 53-64: Post.updateMany(filter, { isActive: false, deletedAt: new Date() });
\* every matched document has isActive true, so every matched document is modified
SweepUpdateMany(s) ==
    /\ running
    /\ sweep[s].pc = "update"
    /\ LET matched == ExpiredFilter(posts, sweep[s].twentyFourHoursAgo)
           update == StrictCast([isActive |-> FALSE, deletedAt |-> now])
       IN /\ posts' = [p \in DOMAIN posts |->
                         IF p \in matched THEN ApplySet(posts[p], update) ELSE posts[p]]
          /\ flips' = [p \in PostIds |-> IF p \in matched THEN flips[p] + 1 ELSE flips[p]]
          /\ softTotal' = softTotal + Cardinality(matched)
          /\ sweep' = [(IF matched = {} THEN sweep ELSE Dirty(sweep, s)) EXCEPT ![s] =
                   [sweep[s] EXCEPT !.pc = "count", !.i = 1,
                                    !.modifiedCount = Cardinality(matched),
                                    !.moved = {posts[p].author : p \in matched}]]
    /\ UNCHANGED <<now, nextId, postsCount, files, req, pending, startupFired, nextAsset, extras, schedVars, assetVars, resize, tsVars>>

\* lines 68-71: Post.countDocuments({ author: authorId, isActive: true })
SweepCount(s) ==
    /\ running
    /\ sweep[s].pc = "count"
    /\ sweep' = [sweep EXCEPT ![s].pc = "write",
                              ![s].activePostCount =
                                  ActiveCount(posts, sweep[s].authorIds[sweep[s].i])]
    /\ UNCHANGED <<now, posts, nextId, postsCount, files, req, flips, pending, startupFired, nextAsset, extras, softTotal, schedVars, assetVars, resize, tsVars>>

\* the counter decremented instead of overwritten
NewPostsCount_Decrement(stored, activePostCount) == stored - 1

\* line 74: the update document { postsCount: activePostCount } overwrites the counter
NewPostsCount(stored, activePostCount) == activePostCount

\* lines 73-76: User.findByIdAndUpdate(authorId, { postsCount: activePostCount })
SweepWrite(s) ==
    /\ running
    /\ sweep[s].pc = "write"
    /\ LET a == sweep[s].authorIds[sweep[s].i]
       IN /\ postsCount' = [postsCount EXCEPT
                               ![a] = NewPostsCount(@, sweep[s].activePostCount)]
          /\ pending' = pending \ {a}
          /\ sweep' = [Dirty(sweep, s) EXCEPT ![s] =
                   [sweep[s] EXCEPT !.i = @ + 1,
                                    !.pc = IF sweep[s].i < Len(sweep[s].authorIds)
                                           THEN "count" ELSE "purge"]]
    /\ UNCHANGED <<now, posts, nextId, files, req, flips, startupFired, nextAsset, extras, softTotal, schedVars, assetVars, resize, tsVars>>

\* lines 81-95: Post.deleteMany({ createdAt < sevenDaysAgo, isActive: false }), return
SweepPurge(s) ==
    /\ running
    /\ sweep[s].pc = "purge"
    /\ LET sevenDaysAgo == now - SevenDaysMs
           gone == HardDeleteFilter(posts, sevenDaysAgo)
       IN /\ posts' = [p \in (DOMAIN posts) \ gone |-> posts[p]]
          /\ sweep' = [(IF gone = {} THEN sweep ELSE Dirty(sweep, s)) EXCEPT ![s] =
                   [IdleSweep EXCEPT !.pc = "return", !.result =
                        Outcome("value", sweep[s].modifiedCount, Cardinality(gone),
                                Len(sweep[s].authorIds))]]
    /\ UNCHANGED <<now, nextId, postsCount, files, req, flips, pending, startupFired, nextAsset, extras, softTotal, schedVars, assetVars, resize, tsVars>>

\* lines 97-100: an awaited database call rejects; the sweep stops where it is
\* and the error goes to the caller
SweepThrow(s) ==
    /\ running
    /\ InProgress(s)
    /\ Extra
    /\ pending' = pending \cup
           (sweep[s].moved \ {sweep[s].authorIds[j] : j \in 1..(sweep[s].i - 1)})
    /\ sweep' = [sweep EXCEPT ![s] =
           [IdleSweep EXCEPT !.pc = "return", !.result = Outcome("error", 0, 0, 0)]]
    /\ thrown' = thrown \cup {s}
    /\ UNCHANGED <<now, posts, nextId, postsCount, files, req, flips, startupFired, nextAsset, softTotal, running, assetVars, resize, tsVars>>

\* no callback catches what the sweep throws
Catches_Nothing(s) == FALSE

\* lines 9-15 and 20-26: the cron callback and the startup timer wrap the call in
\* try/catch and log the error; manualCleanup (lines 105-113) logs and rethrows it
Catches(s) == s \in {"cron", "startup"}

\* the caller takes the outcome.  An error that no callback catches is an unhandled
\* rejection, which ends the process; what manualCleanup rethrows goes to a caller
\* outside this repository, which may or may not handle it.
SweepReturn(s) ==
    /\ running
    /\ sweep[s].pc = "return"
    /\ sweep' = [sweep EXCEPT ![s] = IdleSweep]
    /\ IF sweep[s].result.kind = "error" /\ ~Catches(s)
       THEN IF s = "manual" THEN running' \in BOOLEAN ELSE running' = FALSE
       ELSE UNCHANGED running
    /\ UNCHANGED <<now, posts, nextId, postsCount, files, req, flips, pending, startupFired, nextAsset, extras, softTotal, thrown, assetVars, resize, tsVars>>

\* ---- the request handlers: PostsController (postsController_old.js) ----

\* lines 1070-1078: new Post({...}) and post.save(); the upload middleware has
\* stored the files of req.processedImages before the controller runs, drawing one
\* uuid for the filename and one for the descriptor id of each image.
\* The timestamps option stamps createdAt, the pre-save hook (Post.js 108-114)
\* sets expiresAt = Date.now() + twentyFourHours.
NewPost(a, imgs) ==
    [author |-> a, content |-> "c0", isActive |-> TRUE, createdAt |-> now,
     expiresAt |-> now + twentyFourHours, likes |-> 0, likesCount |-> 0, images |-> imgs]

CreatePostSave(r, a, withImage, until) ==
    /\ running
    /\ req[r].pc = "idle"
    /\ nextId < MaxPosts
    /\ now <= until
    /\ IF withImage THEN Extra ELSE UNCHANGED extras
    /\ LET id == nextId + 1
           imgs == IF withImage THEN {nextAsset + 1} ELSE {}
       IN /\ posts' = [p \in (DOMAIN posts) \cup {id} |->
                         IF p = id THEN NewPost(a, imgs) ELSE posts[p]]
          /\ files' = files \cup UNION {AssetFiles(x) : x \in imgs}
          /\ nextAsset' = nextAsset + 2 * Cardinality(imgs)
          /\ nextId' = id
          /\ req' = [req EXCEPT ![r] = [IdleReq EXCEPT !.op = "createPost", !.pc = "inc",
                                                      !.id = id, !.user = a]]
    /\ sweep' = Dirty(sweep, "none")
    /\ UNCHANGED <<now, postsCount, flips, pending, startupFired, softTotal, schedVars, assetVars, resize, tsVars>>

\* lines 1086-1088: User.findByIdAndUpdate(authorId, { $inc: { postsCount: 1 } })
CreatePostInc(r) ==
    /\ running
    /\ req[r].op = "createPost" /\ req[r].pc = "inc"
    /\ postsCount' = [postsCount EXCEPT ![req[r].user] = @ + 1]
    /\ req' = [req EXCEPT ![r] = IdleReq]
    /\ sweep' = Dirty(sweep, "none")
    /\ UNCHANGED <<now, posts, nextId, files, flips, pending, startupFired, nextAsset, extras, softTotal, schedVars, assetVars, resize, tsVars>>

\* checkOwnership (routes/posts.js 129-142) and the handler's own Post.findById:
\* both read the post and compare its author with the caller; a missing post is
\* answered 404 and another user's post 403, neither writes anything.
FindOwn(r, op, id) ==
    /\ running
    /\ req[r].pc = "idle"
    /\ id \in DOMAIN posts
    /\ req' = [req EXCEPT ![r] = [IdleReq EXCEPT !.op = op, !.pc = "found", !.id = id,
                                                !.user = posts[id].author,
                                                !.images = posts[id].images]]
    /\ UNCHANGED <<now, posts, nextId, postsCount, files, sweep, flips, pending, startupFired, nextAsset, softTotal, schedVars, assetVars, resize, tsVars>>

\* lines 1152-1160
DeletePostFind(r, id) == FindOwn(r, "deletePost", id) /\ UNCHANGED extras

\* line 1163: Post.findByIdAndDelete(id)
DeletePostDelete(r) ==
    /\ running
    /\ req[r].op = "deletePost" /\ req[r].pc = "found"
    /\ posts' = [p \in (DOMAIN posts) \ {req[r].id} |-> posts[p]]
    /\ req' = [req EXCEPT ![r].pc = "inc"]
    /\ sweep' = IF req[r].id \in DOMAIN posts THEN Dirty(sweep, "none") ELSE sweep
    /\ UNCHANGED <<now, nextId, postsCount, files, flips, pending, startupFired, nextAsset, extras, softTotal, schedVars, assetVars, resize, tsVars>>

\* lines 1166-1168: User.findByIdAndUpdate(userId, { $inc: { postsCount: -1 } })
DeletePostInc(r) ==
    /\ running
    /\ req[r].op = "deletePost" /\ req[r].pc = "inc"
    /\ postsCount' = [postsCount EXCEPT ![req[r].user] = @ - 1]
    /\ req' = [req EXCEPT ![r] = IdleReq]
    /\ sweep' = Dirty(sweep, "none")
    /\ UNCHANGED <<now, posts, nextId, files, flips, pending, startupFired, nextAsset, extras, softTotal, schedVars, assetVars, resize, tsVars>>

\* lines 1114-1122
UpdatePostFind(r, id) ==
    /\ Extra
    /\ FindOwn(r, "updatePost", id)

\* an update document that also republishes the post
UpdatePostFields_Reactivate(c) == [content |-> c, isActive |-> TRUE]

\* lines 1127-1131: the update document of updatePost
UpdatePostFields(c) == [content |-> c]

\* lines 1125-1133: Post.findByIdAndUpdate(id, { content, category, tags })
UpdatePostUpdate(r, c) ==
    /\ running
    /\ req[r].op = "updatePost" /\ req[r].pc = "found"
    /\ posts' = [p \in DOMAIN posts |->
                   IF p = req[r].id THEN ApplySet(posts[p], StrictCast(UpdatePostFields(c)))
                   ELSE posts[p]]
    /\ req' = [req EXCEPT ![r] = IdleReq]
    /\ sweep' = IF posts' # posts THEN Dirty(sweep, "none") ELSE sweep
    /\ UNCHANGED <<now, nextId, postsCount, files, flips, pending, startupFired, nextAsset, extras, softTotal, schedVars, assetVars, resize, tsVars>>

\* lines 1186-1189: Post.findById(id); any authenticated user may like
ToggleLikeFind(r, id) ==
    /\ running
    /\ req[r].pc = "idle"
    /\ id \in DOMAIN posts
    /\ Extra
    /\ req' = [req EXCEPT ![r] = [IdleReq EXCEPT !.op = "toggleLike", !.pc = "found",
                                                !.id = id, !.likes = posts[id].likes]]
    /\ UNCHANGED <<now, posts, nextId, postsCount, files, sweep, flips, pending, startupFired, nextAsset, softTotal, schedVars, assetVars, resize, tsVars>>

\* lines 1191-1203: likes.push(userId), post.save().  The likes path holds
\* {user, likedAt} subdocuments, so likes.includes(userId) finds no string and the
\* handler takes the "like" branch.  save() sends $push for the new entry and $set
\* for likesCount, which the pre-save hook (Post.js 100-105) sets to the length of
\* the handler's copy of likes; it writes no other path.  save() of a document that
\* no longer exists, or a cast failure of the pushed value, rejects and writes nothing.
ToggleLikeSave(r, ok) ==
    /\ running
    /\ req[r].op = "toggleLike" /\ req[r].pc = "found"
    /\ IF ok /\ req[r].id \in DOMAIN posts
       THEN /\ posts' = [posts EXCEPT ![req[r].id] =
                            ApplySet(@, [likes |-> @.likes + 1, likesCount |-> req[r].likes + 1])]
            /\ sweep' = Dirty(sweep, "none")
       ELSE UNCHANGED <<posts, sweep>>
    /\ req' = [req EXCEPT ![r] = IdleReq]
    /\ UNCHANGED <<now, nextId, postsCount, files, flips, pending, startupFired, nextAsset, extras, softTotal, schedVars, assetVars, resize, tsVars>>

\* the TTL monitor of the database acting on the index declared in Post.js 75-79:
\* it removes a document once expireAfterSeconds have passed since its expiresAt
TTLMonitor(p) ==
    /\ p \in DOMAIN posts
    /\ now - posts[p].expiresAt >= expireAfterSeconds
    /\ Extra
    /\ posts' = [q \in (DOMAIN posts) \ {p} |-> posts[q]]
    /\ sweep' = Dirty(sweep, "none")
    /\ UNCHANGED <<now, nextId, postsCount, files, req, flips, pending, startupFired, nextAsset, softTotal, schedVars, assetVars, resize, tsVars>>

RequestStep ==
    \E r \in Single :
        \/ \E a \in Authors, withImage \in BOOLEAN : CreatePostSave(r, a, withImage, MaxCreateTime)
        \/ CreatePostInc(r)
        \/ \E id \in PostIds : DeletePostFind(r, id)
        \/ DeletePostDelete(r)
        \/ DeletePostInc(r)
        \/ \E id \in PostIds : UpdatePostFind(r, id)
        \/ \E c \in Contents : UpdatePostUpdate(r, c)
        \/ \E id \in PostIds : ToggleLikeFind(r, id)
        \/ \E ok \in BOOLEAN : ToggleLikeSave(r, ok)

\* every step of the execution a trigger s started
SweepStep(s) ==
    \/ SweepFind(s)
    \/ SweepUpdateMany(s)
    \/ SweepCount(s)
    \/ SweepWrite(s)
    \/ SweepPurge(s)
    \/ SweepThrow(s)
    \/ SweepReturn(s)

\* The lifecycle of posts under the hourly sweep and the request handlers.
Next ==
    \/ Tick(MaxTime)
    \/ SweepStep("cron")
    \/ RequestStep
    \/ \E p \in PostIds : TTLMonitor(p)

Spec == Init /\ [][Next]_vars

\* Executions of the sweep started by different triggers of one process, together
\* with the request handlers that change an author's posts.
NextOverlap ==
    \/ Tick(MaxOverlapTime)
    \/ \E s \in Sweeps :
        \/ SweepFind(s)
        \/ SweepUpdateMany(s)
        \/ SweepCount(s)
        \/ SweepWrite(s)
        \/ SweepPurge(s)
        \/ SweepReturn(s)
    \/ \E r \in Single :
        \/ \E a \in Authors : CreatePostSave(r, a, FALSE, MaxOverlapTime)
        \/ CreatePostInc(r)
        \/ \E id \in PostIds : DeletePostFind(r, id)
        \/ DeletePostDelete(r)
        \/ DeletePostInc(r)

SpecOverlap == Init /\ [][NextOverlap]_vars

\* The scheduler of one process: the hourly tick and the startup timer, with
\* sweeps that throw, while posts are created.
NextScheduler ==
    \/ Tick(MaxOverlapTime)
    \/ \E s \in {"cron", "startup"} : SweepStep(s)
    \/ \E r \in Single :
        \/ \E a \in Authors : CreatePostSave(r, a, FALSE, MaxOverlapTime)
        \/ CreatePostInc(r)

SpecScheduler == Init /\ [][NextScheduler]_vars

\* Two requests of the posts routes at a time: createPost and deletePost.
NextRequests ==
    \E r \in Reqs :
        \/ \E a \in Authors : CreatePostSave(r, a, FALSE, MaxCreateTime)
        \/ CreatePostInc(r)
        \/ \E id \in PostIds : DeletePostFind(r, id)
        \/ DeletePostDelete(r)
        \/ DeletePostInc(r)

SpecRequests == Init /\ [][NextRequests]_vars

\* ---- the image routes: middleware/imageUpload.js and ImageController ----

\* a fileFilter that lets every mime type through
FileFilter_AcceptAll(mimetype) == TRUE

\* fileFilter (imageUpload.js 28-34)
FileFilter(mimetype) == mimetype \in AllowedTypes

\* limits.fileSize (lines 39-42): multer fails with LIMIT_FILE_SIZE when a file
\* has more bytes than the limit
WithinLimit(size) == size <= MaxFileSize

\* sharp(...).resize(width, height, { fit: 'cover', position: 'center' }) (lines
\* 131-137): the picture is scaled until it covers the width x height box, enlarged
\* if it is smaller (withoutEnlargement is not set), and cropped to the box, so the
\* output is width x height whatever the source is
ResizeCover(src, width, height) == <<width, height>>

\* lines 139-143: the entry of thumbnails for one size
ThumbnailEntry(size) == [width |-> ThumbnailDims[size][1], height |-> ThumbnailDims[size][2]]

\* lines 152-166: the descriptor pushed to processedImages; id is a fresh uuidv4()
Descriptor(id, file, thumbnails) ==
    [id |-> id, filename |-> file.filename, thumbnails |-> thumbnails,
     metadata |-> [width |-> file.dims[1], height |-> file.dims[2]]]

\* uploadMultiple and handleUploadError (imageUpload.js 37-44, 90, 177-218;
\* routes/images.js 18-24): multer runs fileFilter on every file and stores the
\* accepted ones under a fresh uuid; when a file is refused or too large it removes
\* the files of the request it has stored and passes the error to
\* handleUploadError, which answers 400.
UploadMulter(batch) ==
    /\ running
    /\ up.pc = "idle"
    /\ nextAsset + 2 * Len(batch) <= MaxUuids
    /\ IF \A j \in 1..Len(batch) : FileFilter(batch[j].mimetype) /\ WithinLimit(batch[j].size)
       THEN /\ up' = [IdleUpload EXCEPT !.pc = "thumbnail", !.i = 1, !.k = 1, !.batch = batch,
                         !.files = [j \in 1..Len(batch) |->
                                       [filename |-> nextAsset + j, dims |-> batch[j].dims]]]
            /\ files' = files \cup {<<nextAsset + j, "original">> : j \in 1..Len(batch)}
            /\ pixels' = [f \in (DOMAIN pixels) \cup {<<nextAsset + j, "original">> : j \in 1..Len(batch)} |->
                             IF f \in DOMAIN pixels THEN pixels[f]
                             ELSE batch[f[1] - nextAsset].dims]
            /\ nextAsset' = nextAsset + Len(batch)
       ELSE /\ up' = [IdleUpload EXCEPT !.pc = "done", !.status = 400, !.batch = batch]
            /\ UNCHANGED <<files, pixels, nextAsset>>
    /\ UNCHANGED <<now, posts, nextId, postsCount, sweep, req, flips, pending, startupFired, extras, softTotal, schedVars, del, acked, resize, tsVars>>

\* processImage, lines 125-144: one turn of the thumbnail loop.  When sharp
\* rejects, the catch of lines 171-173 passes the error to the error handler
\* (middleware/validation.js 130-171), which answers 500; nothing is removed.
UploadThumbnail(ok) ==
    /\ running
    /\ up.pc = "thumbnail"
    /\ LET file == up.files[up.i]
           size == ThumbnailSizes[up.k]
           thumbnailPath == <<file.filename, size>>
       IN IF ok
          THEN /\ files' = files \cup {thumbnailPath}
               /\ pixels' = [f \in (DOMAIN pixels) \cup {thumbnailPath} |->
                                IF f = thumbnailPath
                                THEN ResizeCover(file.dims, ThumbnailDims[size][1], ThumbnailDims[size][2])
                                ELSE pixels[f]]
               /\ up' = [up EXCEPT !.thumbnails =
                                       [z \in (DOMAIN up.thumbnails) \cup {size} |->
                                           IF z = size THEN ThumbnailEntry(size) ELSE up.thumbnails[z]],
                                   !.k = @ + 1,
                                   !.pc = IF up.k < Len(ThumbnailSizes) THEN "thumbnail" ELSE "metadata"]
          ELSE /\ up' = [up EXCEPT !.pc = "done", !.status = 500]
               /\ UNCHANGED <<files, pixels>>
    /\ UNCHANGED <<now, posts, nextId, postsCount, sweep, req, flips, pending, startupFired, nextAsset, extras, softTotal, schedVars, del, acked, resize, tsVars>>

\* processImage, lines 147-170, and uploadImages (imageController.js 8-32):
\* sharp(imagePath).metadata(), the descriptor with a fresh uuid as id, then the
\* next file or next() and the 201 response with req.processedImages
UploadMetadata(ok) ==
    /\ running
    /\ up.pc = "metadata"
    /\ IF ok
       THEN LET processedImages ==
                    Append(up.processedImages,
                           Descriptor(nextAsset + 1, up.files[up.i], up.thumbnails))
            IN /\ nextAsset' = nextAsset + 1
               /\ IF up.i < Len(up.files)
                  THEN /\ up' = [up EXCEPT !.processedImages = processedImages, !.i = @ + 1,
                                           !.k = 1, !.thumbnails = <<>>, !.pc = "thumbnail"]
                       /\ UNCHANGED acked
                  ELSE /\ up' = [up EXCEPT !.processedImages = processedImages,
                                           !.pc = "done", !.status = 201]
                       /\ acked' = acked \cup Range(processedImages)
       ELSE /\ up' = [up EXCEPT !.pc = "done", !.status = 500]
            /\ UNCHANGED <<nextAsset, acked>>
    /\ UNCHANGED <<now, posts, nextId, postsCount, files, sweep, req, flips, pending, startupFired, extras, softTotal, schedVars, del, pixels, resize, tsVars>>

\* the client has the response
UploadFinish ==
    /\ running
    /\ up.pc = "done"
    /\ up' = IdleUpload
    /\ UNCHANGED <<now, posts, nextId, postsCount, files, sweep, req, flips, pending, startupFired, nextAsset, extras, softTotal, schedVars, del, pixels, acked, resize, tsVars>>

\* the filenames a client can name in a request: those of the descriptors it was
\* sent (a uuid cannot be guessed), and 0 for a name that never existed
KnownFilenames == {x.filename : x \in acked}

\* history: another delete of the same filename is in progress together with d
Overlapped(dl, d) == [e \in DelReqs |->
    IF e # d /\ dl[e].pc \notin {"idle", "done"} /\ dl[e].filename = dl[d].filename
    THEN [dl[e] EXCEPT !.solo = FALSE] ELSE dl[e]]

\* deleteImage, lines 116-127: fs.access(imagePath), 404 when it fails
DeleteAccess(d, filename) ==
    /\ running
    /\ del[d].pc = "idle"
    /\ filename \in KnownFilenames \cup {0}
    /\ LET exists == <<filename, "original">> \in files
           others == {e \in DelReqs \ {d} :
                          del[e].pc \notin {"idle", "done"} /\ del[e].filename = filename}
           mine == [IdleDelete EXCEPT !.filename = filename, !.existed = exists,
                                      !.solo = (others = {}),
                                      !.pc = IF exists THEN "unlink" ELSE "done",
                                      !.status = IF exists THEN 0 ELSE 404]
       IN del' = Overlapped([del EXCEPT ![d] = mine], d)
    /\ UNCHANGED <<now, posts, nextId, postsCount, files, sweep, req, flips, pending, startupFired, nextAsset, extras, softTotal, schedVars, up, pixels, acked, resize, tsVars>>

\* line 130: fs.unlink(imagePath).  It rejects with ENOENT when the file is gone
\* and with an I/O error when the file system fails; the catch of lines 155-161
\* answers 500.
DeleteUnlinkMain(d, io) ==
    /\ running
    /\ del[d].pc = "unlink"
    /\ LET imagePath == <<del[d].filename, "original">>
       IN IF imagePath \notin files
          THEN /\ io = "ok"
               /\ del' = [del EXCEPT ![d].pc = "done", ![d].status = 500]
               /\ UNCHANGED files
          ELSE IF io = "ok"
               THEN /\ files' = files \ {imagePath}
                    /\ del' = [del EXCEPT ![d].pc = "thumbnails", ![d].k = 1]
               ELSE /\ del' = [del EXCEPT ![d].pc = "done", ![d].status = 500, ![d].fault = TRUE]
                    /\ UNCHANGED files
    /\ UNCHANGED <<now, posts, nextId, postsCount, sweep, req, flips, pending, startupFired, nextAsset, extras, softTotal, schedVars, up, pixels, acked, resize, tsVars>>

\* lines 136-154: one turn of the thumbnail loop, fs.unlink(thumbnailPath) with
\* every error ignored (lines 144-147); after the last turn the 200 response
DeleteUnlinkThumbnail(d, io) ==
    /\ running
    /\ del[d].pc = "thumbnails"
    /\ ~del[d].fault \/ io = "ok"
    /\ LET thumbnailPath == <<del[d].filename, ThumbnailSizes[del[d].k]>>
           last == del[d].k = Len(ThumbnailSizes)
           failed == thumbnailPath \in files /\ io # "ok"
       IN /\ thumbnailPath \notin files => io = "ok"
          /\ files' = IF io = "ok" THEN files \ {thumbnailPath} ELSE files
          /\ del' = [del EXCEPT ![d].k = @ + 1,
                                ![d].fault = @ \/ failed,
                                ![d].pc = IF last THEN "done" ELSE "thumbnails",
                                ![d].status = IF last THEN 200 ELSE 0]
    /\ UNCHANGED <<now, posts, nextId, postsCount, sweep, req, flips, pending, startupFired, nextAsset, extras, softTotal, schedVars, up, pixels, acked, resize, tsVars>>

\* the client has the response
DeleteFinish(d) ==
    /\ running
    /\ del[d].pc = "done"
    /\ del' = [del EXCEPT ![d] = IdleDelete]
    /\ UNCHANGED <<now, posts, nextId, postsCount, files, sweep, req, flips, pending, startupFired, nextAsset, extras, softTotal, schedVars, up, pixels, acked, resize, tsVars>>

\* The image routes: one upload request and two delete requests at a time.
NextAssets ==
    \/ \E batch \in Batches : UploadMulter(batch)
    \/ \E ok \in BOOLEAN : UploadThumbnail(ok)
    \/ \E ok \in BOOLEAN : UploadMetadata(ok)
    \/ UploadFinish
    \/ \E d \in DelReqs :
        \/ \E filename \in 0..MaxUuids : DeleteAccess(d, filename)
        \/ \E io \in IoOutcomes : DeleteUnlinkMain(d, io)
        \/ \E io \in IoOutcomes : DeleteUnlinkThumbnail(d, io)
        \/ DeleteFinish(d)

SpecAssets == Init /\ [][NextAssets]_vars

\* ---- on-demand resize: ImageController.resizeImage ----

\* req.query.width and req.query.height: not given, digits, or other text
QueryValues == {"absent", "300", "abc"}

\* parseInt(value) (lines 239-240): <<n>> for the number n, <<>> for NaN, which
\* text without digits gives
ParseInt(value) == IF value = "300" THEN <<300>> ELSE <<>>

\* a resize that stores what it produced next to the asset's files
ResizeFiles_Persist(fs, filename) == fs \cup {<<filename, "resized">>}

\* lines 233-268: sharp(imagePath)...pipe(res) streams to the response and writes
\* no file
ResizeFiles(fs, filename) == fs

\* lines 214-231 and 269-275: 400 when neither width nor height is given, 404 when
\* fs.access fails, 500 when sharp refuses the size (resize() throws on NaN)
ResizeStatus(fs, filename, width, height) ==
    IF width = "absent" /\ height = "absent" THEN 400
    ELSE IF <<filename, "original">> \notin fs THEN 404
    ELSE IF \E v \in {width, height} : v # "absent" /\ ParseInt(v) = <<>> THEN 500
    ELSE 200

\* GET /api/images/:filename/resize (imageController.js 209-276)
ResizeImage(filename, width, height) ==
    /\ running
    /\ filename \in KnownFilenames \cup {0}
    /\ resize' = [filename |-> filename, width |-> width, height |-> height,
                  status |-> ResizeStatus(files, filename, width, height)]
    /\ files' = IF ResizeStatus(files, filename, width, height) = 200
                THEN ResizeFiles(files, filename) ELSE files
    /\ UNCHANGED <<now, posts, nextId, postsCount, sweep, req, flips, pending, startupFired, nextAsset, extras, softTotal, schedVars, assetVars, tsVars>>

\* Uploads and on-demand resize requests.
NextResize ==
    \/ \E batch \in Batches : UploadMulter(batch)
    \/ \E ok \in BOOLEAN : UploadThumbnail(ok)
    \/ \E ok \in BOOLEAN : UploadMetadata(ok)
    \/ UploadFinish
    \/ \E filename \in 0..MaxUuids, width, height \in QueryValues :
           ResizeImage(filename, width, height)

SpecResize == Init /\ [][NextResize]_vars

\* ---- reads of the posts collection ----

\* getAllPosts (postsController_old.js 959-1015): Post.find(filter) with a filter
\* of category, author and tags only; without query parameters every record matches
GetAllPosts(db) == DOMAIN db

\* getPostById (lines 1018-1046): Post.findById(id), 404 only when there is no record
GetPostById(db, id) == id \in DOMAIN db

\* getCleanupStats (postCleanupService.js 117-141) at time t
GetCleanupStats(db, t) ==
    [activePosts |-> Cardinality({p \in DOMAIN db : db[p].isActive}),
     inactivePosts |-> Cardinality({p \in DOMAIN db : ~db[p].isActive}),
     postsExpiringSoon |-> Cardinality(ExpiredFilter(db, t - TwentyFourHoursMs)),
     postsEligibleForHardDelete |-> Cardinality(HardDeleteFilter(db, t - SevenDaysMs))]

\* ---- the TypeScript post flow: PostsController and the Post model hooks ----

\* postsController.ts 171-188: new Post({...}); status.isPublished is !isDraft
TsNewPost(a, isDraft) ==
    [author |-> a, isDraft |-> isDraft, isPublished |-> ~isDraft, likes |-> {}, likesCount |-> 0]

\* createPost, line 190: post.save() runs the pre('save') hook of the model
\* (Post model 105-118), which adds 1 to the author's stats.postsCount when the
\* document is new and not a draft
TsCreateHook(r, a, isDraft) ==
    /\ running
    /\ tsReq[r].pc = "idle"
    /\ tsNextId < MaxTsPosts
    /\ tsNextId' = tsNextId + 1
    /\ tsCount' = [tsCount EXCEPT ![a] = IF isDraft THEN @ ELSE @ + 1]
    /\ tsReq' = [tsReq EXCEPT ![r] = [IdleTsReq EXCEPT !.op = "createPost", !.pc = "insert",
                                                      !.id = tsNextId + 1, !.user = a,
                                                      !.isDraft = isDraft]]
    /\ UNCHANGED tsPosts
    /\ UNCHANGED <<now, posts, nextId, postsCount, files, sweep, req, flips, pending, startupFired, nextAsset, extras, softTotal, schedVars, assetVars, resize>>

\* createPost, line 190: post.save() inserts the document after its hooks
TsCreateInsert(r) ==
    /\ running
    /\ tsReq[r].op = "createPost" /\ tsReq[r].pc = "insert"
    /\ tsPosts' = [p \in (DOMAIN tsPosts) \cup {tsReq[r].id} |->
                      IF p = tsReq[r].id THEN TsNewPost(tsReq[r].user, tsReq[r].isDraft)
                      ELSE tsPosts[p]]
    /\ tsReq' = [tsReq EXCEPT ![r].pc = "inc"]
    /\ UNCHANGED <<tsCount, tsNextId>>
    /\ UNCHANGED <<now, posts, nextId, postsCount, files, sweep, req, flips, pending, startupFired, nextAsset, extras, softTotal, schedVars, assetVars, resize>>

\* createPost, lines 193-196: $inc stats.postsCount 1, then the response
TsCreateInc(r) ==
    /\ running
    /\ tsReq[r].op = "createPost" /\ tsReq[r].pc = "inc"
    /\ tsCount' = [tsCount EXCEPT ![tsReq[r].user] = @ + 1]
    /\ tsReq' = [tsReq EXCEPT ![r] = IdleTsReq]
    /\ UNCHANGED <<tsPosts, tsNextId>>
    /\ UNCHANGED <<now, posts, nextId, postsCount, files, sweep, req, flips, pending, startupFired, nextAsset, extras, softTotal, schedVars, assetVars, resize>>

\* deletePost, lines 314-324: Post.findById(id); a missing post is answered 404
\* and another user's post 403, neither writes anything
TsDeleteFind(r, id) ==
    /\ running
    /\ tsReq[r].pc = "idle"
    /\ id \in DOMAIN tsPosts
    /\ tsReq' = [tsReq EXCEPT ![r] = [IdleTsReq EXCEPT !.op = "deletePost", !.pc = "hookFind",
                                                      !.id = id, !.user = tsPosts[id].author]]
    /\ UNCHANGED <<tsPosts, tsCount, tsNextId>>
    /\ UNCHANGED <<now, posts, nextId, postsCount, files, sweep, req, flips, pending, startupFired, nextAsset, extras, softTotal, schedVars, assetVars, resize>>

\* deletePost, line 326: Post.findByIdAndDelete(id) runs the pre('findOneAndDelete')
\* hook (Post model 121-134); its first step is this.model.findOne(this.getQuery())
TsDeleteHookFind(r) ==
    /\ running
    /\ tsReq[r].op = "deletePost" /\ tsReq[r].pc = "hookFind"
    /\ tsReq' = [tsReq EXCEPT ![r].pc =
                    IF tsReq[r].id \in DOMAIN tsPosts /\ ~tsPosts[tsReq[r].id].isDraft
                    THEN "hookInc" ELSE "remove"]
    /\ UNCHANGED <<tsPosts, tsCount, tsNextId>>
    /\ UNCHANGED <<now, posts, nextId, postsCount, files, sweep, req, flips, pending, startupFired, nextAsset, extras, softTotal, schedVars, assetVars, resize>>

\* the hook, lines 125-128: $inc stats.postsCount -1 of the post's author
TsDeleteHookInc(r) ==
    /\ running
    /\ tsReq[r].op = "deletePost" /\ tsReq[r].pc = "hookInc"
    /\ tsCount' = [tsCount EXCEPT ![tsReq[r].user] = @ - 1]
    /\ tsReq' = [tsReq EXCEPT ![r].pc = "remove"]
    /\ UNCHANGED <<tsPosts, tsNextId>>
    /\ UNCHANGED <<now, posts, nextId, postsCount, files, sweep, req, flips, pending, startupFired, nextAsset, extras, softTotal, schedVars, assetVars, resize>>

\* deletePost, line 326: the document is removed
TsDeleteRemove(r) ==
    /\ running
    /\ tsReq[r].op = "deletePost" /\ tsReq[r].pc = "remove"
    /\ tsPosts' = [p \in (DOMAIN tsPosts) \ {tsReq[r].id} |-> tsPosts[p]]
    /\ tsReq' = [tsReq EXCEPT ![r].pc = "inc"]
    /\ UNCHANGED <<tsCount, tsNextId>>
    /\ UNCHANGED <<now, posts, nextId, postsCount, files, sweep, req, flips, pending, startupFired, nextAsset, extras, softTotal, schedVars, assetVars, resize>>

\* deletePost, lines 329-332: $inc stats.postsCount -1, then the response
TsDeleteInc(r) ==
    /\ running
    /\ tsReq[r].op = "deletePost" /\ tsReq[r].pc = "inc"
    /\ tsCount' = [tsCount EXCEPT ![tsReq[r].user] = @ - 1]
    /\ tsReq' = [tsReq EXCEPT ![r] = IdleTsReq]
    /\ UNCHANGED <<tsPosts, tsNextId>>
    /\ UNCHANGED <<now, posts, nextId, postsCount, files, sweep, req, flips, pending, startupFired, nextAsset, extras, softTotal, schedVars, assetVars, resize>>

\* toggleLike, lines 369-377: Post.findById(id) and hasLiked; a missing or
\* unpublished post is answered 404
TsToggleFind(r, id, u) ==
    /\ running
    /\ tsReq[r].pc = "idle"
    /\ id \in DOMAIN tsPosts
    /\ tsPosts[id].isPublished
    /\ tsPosts[id].likesCount \in (1 - MaxLikes)..(MaxLikes - 1)
    /\ tsReq' = [tsReq EXCEPT ![r] = [IdleTsReq EXCEPT !.op = "toggleLike", !.pc = "update",
                                                      !.id = id, !.user = u,
                                                      !.hasLiked = (u \in tsPosts[id].likes)]]
    /\ UNCHANGED <<tsPosts, tsCount, tsNextId>>
    /\ UNCHANGED <<now, posts, nextId, postsCount, files, sweep, req, flips, pending, startupFired, nextAsset, extras, softTotal, schedVars, assetVars, resize>>

\* lines 382-396: the update document: $pull and $inc -1 when hasLiked, $addToSet
\* and $inc 1 otherwise, applied to a stored post
TsLikeUpdate(post, u, hasLiked) ==
    IF hasLiked
    THEN [post EXCEPT !.likes = @ \ {u}, !.likesCount = @ - 1]
    ELSE [post EXCEPT !.likes = @ \cup {u}, !.likesCount = @ + 1]

\* toggleLike, lines 398-400: Post.findByIdAndUpdate(id, update), then the response
\* { liked: !hasLiked }; the update of a post that is gone changes nothing
TsToggleUpdate(r) ==
    /\ running
    /\ tsReq[r].op = "toggleLike" /\ tsReq[r].pc = "update"
    /\ tsPosts' = [p \in DOMAIN tsPosts |->
                      IF p = tsReq[r].id
                      THEN TsLikeUpdate(tsPosts[p], tsReq[r].user, tsReq[r].hasLiked)
                      ELSE tsPosts[p]]
    /\ tsReq' = [tsReq EXCEPT ![r] = IdleTsReq]
    /\ UNCHANGED <<tsCount, tsNextId>>
    /\ UNCHANGED <<now, posts, nextId, postsCount, files, sweep, req, flips, pending, startupFired, nextAsset, extras, softTotal, schedVars, assetVars, resize>>

\* The TypeScript post flow with two requests at a time.
NextTs ==
    \E r \in TsReqs :
        \/ \E a \in Authors, isDraft \in BOOLEAN : TsCreateHook(r, a, isDraft)
        \/ TsCreateInsert(r)
        \/ TsCreateInc(r)
        \/ \E id \in TsPostIds : TsDeleteFind(r, id)
        \/ TsDeleteHookFind(r)
        \/ TsDeleteHookInc(r)
        \/ TsDeleteRemove(r)
        \/ TsDeleteInc(r)
        \/ \E id \in TsPostIds, u \in Authors : TsToggleFind(r, id, u)
        \/ TsToggleUpdate(r)

SpecTs == Init /\ [][NextTs]_vars

\* ---- the states of a post ----
Created(p) == p <= nextId
Active(p) == p \in DOMAIN posts /\ posts[p].isActive
Expired(p) == p \in DOMAIN posts /\ ~posts[p].isActive
Purged(p) == Created(p) /\ p \notin DOMAIN posts

\* the Date.now() of line 34 of the execution s
SweepNow(s) == sweep[s].twentyFourHoursAgo + TwentyFourHoursMs

\* C1: a post is first seen Active, an Expired post never becomes Active again,
\* and the record of a purged post never reappears.
C1_MonotonicState ==
    [][\A p \in PostIds :
          /\ (Expired(p) /\ p \in DOMAIN posts') => ~posts'[p].isActive
          /\ Purged(p) => p \notin DOMAIN posts'
          /\ (p \notin DOMAIN posts /\ p \in DOMAIN posts') => (~Created(p) /\ posts'[p].isActive)
      ]_vars

\* a post that a sweep moved to Expired has been purged by a sweep's deleteMany
C1_Witness ==
    \E p \in PostIds, s \in Sweeps :
        /\ Purged(p) /\ flips[p] = 1
        /\ sweep[s].pc = "return" /\ sweep[s].result.hardDeleted >= 1

\* the step of execution s that ends its expire phase: the updateMany, or the
\* early return when find matched nothing
ExpirePhaseStep(s) ==
    \/ sweep[s].pc = "update" /\ sweep'[s].pc = "count"
    \/ sweep[s].pc = "idle" /\ sweep'[s].pc = "return"

ExpirePhaseNow(s) == IF sweep[s].pc = "update" THEN SweepNow(s) ELSE now

MovedToExpired(p) == Active(p) /\ p \in DOMAIN posts' /\ ~posts'[p].isActive

\* C2 as stated: the expire phase of a sweep run at time now moves exactly the
\* Active posts with now - createdAt >= 24h.
C2_AsStated ==
    [][\A s \in Sweeps : ExpirePhaseStep(s) =>
          \A p \in DOMAIN posts :
              MovedToExpired(p) <=>
                  (Active(p) /\ ExpirePhaseNow(s) - posts[p].createdAt >= TwentyFourHoursMs)
      ]_vars

\* C2 amended: the expire phase moves exactly the Active posts with
\* now - createdAt > 24h; a post aged exactly 24h stays Active.
C2_StrictThreshold ==
    [][\A s \in Sweeps : ExpirePhaseStep(s) =>
          \A p \in DOMAIN posts :
              MovedToExpired(p) <=>
                  (Active(p) /\ ExpirePhaseNow(s) - posts[p].createdAt > TwentyFourHoursMs)
      ]_vars

\* an updateMany has expired an older post and left a post aged exactly 24h Active
C2_Witness ==
    \E s \in Sweeps, p, q \in DOMAIN posts :
        /\ sweep[s].pc = "count" /\ sweep[s].modifiedCount >= 1
        /\ Active(p) /\ SweepNow(s) - posts[p].createdAt = TwentyFourHoursMs
        /\ Expired(q) /\ SweepNow(s) - posts[q].createdAt > TwentyFourHoursMs

\* execution s returns to its caller without an error in this step
ReturnsOk(s) ==
    /\ sweep[s].pc # "return"
    /\ sweep'[s].pc = "return"
    /\ sweep'[s].result.kind # "error"

\* C3: when a sweep returns without error, no post is left that is Expired and
\* older than 7 days.  (The claim says "at least 7 days", which is stronger: the
\* code's deleteMany compares with $lt, and a violation of this formula violates
\* the claim as well.)
C3_PurgedAfterSweep ==
    [][\A s \in Sweeps : ReturnsOk(s) =>
          \A p \in DOMAIN posts' :
              ~(~posts'[p].isActive /\ now' - posts'[p].createdAt > SevenDaysMs)
      ]_vars

NoFilesOf(fs, imgs) == \A a \in imgs : AssetFiles(a) \cap fs = {}

\* C4: when the sweep's purge or deletePost has removed a post, no file of any
\* asset of the post's images list is left in storage.
C4_AssetsReaped ==
    [][/\ \A s \in Sweeps : (sweep[s].pc = "purge" /\ sweep'[s].pc = "return") =>
              \A p \in (DOMAIN posts) \ (DOMAIN posts') : NoFilesOf(files', posts[p].images)
       /\ \A r \in Reqs : (req[r].op = "deletePost" /\ req[r].pc = "inc" /\ req'[r].pc = "idle") =>
              NoFilesOf(files', req[r].images)
      ]_vars

\* C5: an Active post has no deletedAt, and a post a sweep moved to Expired has
\* deletedAt set.
C5_DeletedAtStamped ==
    \A p \in DOMAIN posts :
        /\ posts[p].isActive => "deletedAt" \notin DOMAIN posts[p]
        /\ ~posts[p].isActive => "deletedAt" \in DOMAIN posts[p]

\* C6: when a sweep that expired K >= 1 posts returns and nothing else wrote in
\* between, the counter of every author it expired posts of equals the number of the
\* author's Active posts.
C6_CounterConverges ==
    [][\A s \in Sweeps :
          (sweep[s].pc = "purge" /\ ReturnsOk(s) /\ sweep[s].clean /\ sweep[s].modifiedCount >= 1) =>
              \A a \in sweep[s].moved : postsCount'[a] = ActiveCount(posts', a)
      ]_vars

\* a sweep has expired posts and rewritten the counters, undisturbed, although a
\* counter had drifted from the true count before it started
C6_Witness ==
    \E s \in Sweeps :
        /\ sweep[s].pc = "purge" /\ sweep[s].clean /\ sweep[s].drift
        /\ sweep[s].modifiedCount >= 1

\* C7: in the state right after a sweep wrote the counter of author a, the counter
\* equals the number of a's Active posts, whatever createPost and deletePost did
\* in between.
C7_CounterExactAfterWrite ==
    [][\A s \in Sweeps : (sweep[s].pc = "write" /\ sweep'[s].pc \in {"count", "purge"}) =>
          LET a == sweep[s].authorIds[sweep[s].i]
          IN postsCount'[a] = ActiveCount(posts', a)
      ]_vars

\* C8: a sweep that completes undisturbed leaves, for every author whose posts an
\* earlier interrupted sweep expired without rewriting the counter, the counter
\* equal to the number of the author's Active posts.
C8_NextSweepRestores ==
    [][\A s \in Sweeps : (ReturnsOk(s) /\ sweep[s].clean) =>
          LET owed == IF sweep[s].pc = "idle" THEN pending ELSE sweep[s].owes
          IN \A a \in owed : postsCount'[a] = ActiveCount(posts', a)
      ]_vars

\* C9: at most one execution of cleanupExpiredPosts is in progress.
C9_NoOverlap == Cardinality({s \in Sweeps : InProgress(s)}) <= 1

\* C10: no post is moved to Expired more than once, and the modifiedCount figures
\* the sweeps reported add up to the number of posts that were moved.
C10_SingleTransition ==
    /\ \A p \in PostIds : flips[p] <= 1
    /\ softTotal = Cardinality({p \in PostIds : flips[p] >= 1})

\* two executions found the same post, one of them moved it and the other's
\* updateMany then modified nothing
C10_Witness ==
    \E s, t \in Sweeps :
        /\ s # t
        /\ sweep[s].pc \in {"count", "write", "purge"} /\ sweep[s].modifiedCount >= 1
        /\ sweep[t].pc \in {"count", "write", "purge"} /\ sweep[t].modifiedCount = 0

\* C11: once a scheduled or startup sweep has thrown, the process is still running
\* and, whenever no sweep is in progress, the hourly tick starts one.
C11_FailureContained ==
    (thrown \cap {"cron", "startup"} # {}) =>
        /\ running
        /\ (\A x \in Sweeps : sweep[x].pc = "idle") => ENABLED SweepFind("cron")

\* the startup sweep has thrown and a later hourly tick has started a sweep that
\* found posts to expire
C11_Witness ==
    /\ "startup" \in thrown
    /\ sweep["startup"].pc = "idle"
    /\ sweep["cron"].pc = "update"

\* C12: every run of the manual trigger that ends without an error returns the
\* record {softDeleted, hardDeleted, usersUpdated}; a run that finds nothing to
\* expire returns it with softDeleted = 0 and usersUpdated = 0.
C12_ManualResultShape ==
    [][ReturnsOk("manual") =>
          LET result == sweep'["manual"].result
          IN /\ result.kind = "value"
             /\ sweep["manual"].pc = "idle" =>
                    (result.softDeleted = 0 /\ result.usersUpdated = 0)
      ]_vars

\* delete request d sends its response in this step
DeleteResponds(d) == del[d].pc # "done" /\ del'[d].pc = "done"

\* C13: a delete of a filename that was once ingested, with no other delete of the
\* same filename in progress and no I/O failure, answers 200 and leaves no file of
\* the asset, also when the asset was deleted before.
C13_IdempotentDelete ==
    [][\A d \in DelReqs :
          (DeleteResponds(d) /\ del'[d].filename \in KnownFilenames
               /\ del'[d].solo /\ ~del'[d].fault) =>
              /\ del'[d].status = 200
              /\ AssetFiles(del'[d].filename) \cap files' = {}
      ]_vars

\* C14: a delete that found the asset and ran together with another delete of the
\* same asset answers 200, when no I/O failure happened.
C14_ConcurrentDeletes ==
    [][\A d \in DelReqs :
          (DeleteResponds(d) /\ del'[d].existed /\ ~del'[d].solo
               /\ \A e \in DelReqs : ~del'[e].fault) =>
              del'[d].status = 200
      ]_vars

\* C15: when generating a thumbnail fails, the upload answers with an error and no
\* file of any asset of the request is left: neither an original nor a derivative.
C15_AtomicIngestion ==
    [][(up.pc = "thumbnail" /\ up'.pc = "done") =>
          /\ up'.status >= 400
          /\ \A j \in 1..Len(up.files) : AssetFiles(up.files[j].filename) \cap files' = {}
      ]_vars

\* the upload sends its 201 response in this step
UploadAcknowledged == up.pc # "done" /\ up'.pc = "done" /\ up'.status = 201

\* C16: in the state where the upload sends its 201 response, for every asset in
\* the response the original and one derivative of each configured size exist.
C16_StoreThenAcknowledge ==
    [][UploadAcknowledged =>
          \A j \in 1..Len(up'.processedImages) :
              AssetFiles(up'.processedImages[j].filename) \subseteq files'
      ]_vars

\* an upload of two files has been acknowledged
C16_Witness ==
    /\ up.pc = "done" /\ up.status = 201
    /\ Len(up.processedImages) = MaxBatch

\* C17: a delete during which an unlink of an existing file (the original or a
\* derivative) failed with an I/O error does not answer 200.
C17_HardFailureReported ==
    [][\A d \in DelReqs :
          (DeleteResponds(d) /\ del'[d].fault) => del'[d].status # 200
      ]_vars

\* |a - b|
Distance(a, b) == IF a >= b THEN a - b ELSE b - a

\* C18: every derivative is no wider and no higher than its source and than its
\* size's box, and keeps the aspect ratio of the source (up to the rounding of one
\* pixel).
C18_DerivativeWithinSource ==
    \A f \in DOMAIN pixels :
        f[2] # "original" =>
            LET src == pixels[<<f[1], "original">>]
                box == ThumbnailDims[f[2]]
                out == pixels[f]
            IN /\ out[1] <= Min({src[1], box[1]})
               /\ out[2] <= Min({src[2], box[2]})
               /\ Distance(out[1] * src[2], out[2] * src[1]) <= src[1] + src[2]

\* the mime types and the size the upload contract admits
AdmittedTypes == {"image/jpeg", "image/png", "image/gif", "image/webp"}
Admitted(file) == file.mimetype \in AdmittedTypes /\ file.size <= MaxFileSize

C20_IdIsStorageKey ==
    [][UploadAcknowledged =>
          \A j \in 1..Len(up'.processedImages) :
              AssetFiles(up'.processedImages[j].id) \subseteq files'
      ]_vars

\* C21: a resize request changes no stored file and no file's content, whatever its
\* parameters and its outcome, and a request with neither width nor height is
\* answered 400.
C21_ResizeIsPureRead ==
    [][/\ (files' # files \/ pixels' # pixels) => up' # up
       /\ (resize'.width = "absent" /\ resize'.height = "absent" /\ resize'.status # 0) =>
              resize'.status = 400
      ]_vars

\* a resize of a stored image has been answered 200
C21_Witness ==
    /\ resize.status = 200
    /\ <<resize.filename, "original">> \in files

\* C22: the record of an Expired post leaves storage only by the purge of a sweep,
\* at an age of at least 7 days, or by the deletePost of its author; until then its
\* image files stay as well.
C22_RecordKeptUntilPurge ==
    [][\A p \in PostIds :
          (Expired(p) /\ p \notin DOMAIN posts') =>
              /\ \/ \E s \in Sweeps :
                        /\ sweep[s].pc = "purge" /\ sweep'[s].pc = "return"
                        /\ now - posts[p].createdAt >= SevenDaysMs
                 \/ \E r \in Reqs :
                        /\ req[r].op = "deletePost" /\ req[r].pc = "found"
                        /\ req'[r].pc = "inc" /\ req[r].id = p
      ]_vars

C26_CounterFailureIsolated ==
    [][\A s \in Sweeps :
          sweep[s].pc \in {"count", "write"} => sweep'[s].pc \in {"count", "write", "purge"}
      ]_vars

\* C28: an Expired post is not returned by getAllPosts or getPostById, and no step
\* of updatePost or toggleLike changes its record.
C28_ExpiredNotServed ==
    [][\A p \in PostIds :
          Expired(p) =>
              /\ p \notin GetAllPosts(posts)
              /\ ~GetPostById(posts, p)
              /\ p \in DOMAIN posts' => posts'[p] = posts[p]
      ]_vars

\* C29: right after a sweep returned without error, with no write by anyone else
\* and no time passed since it started, the statistics report no Active post older
\* than 24h and no Expired post older than 7 days; and activePosts + inactivePosts
\* is the number of records.
C29_StatsAfterSweep ==
    [][LET stats == GetCleanupStats(posts', now')
       IN /\ stats.activePosts + stats.inactivePosts = Cardinality(DOMAIN posts')
          /\ \A s \in Sweeps :
                (ReturnsOk(s) /\ (sweep[s].pc = "idle" \/ (sweep[s].clean /\ SweepNow(s) = now))) =>
                    /\ stats.postsExpiringSoon = 0
                    /\ stats.postsEligibleForHardDelete = 0
      ]_vars

C27_DerivativesRemoved ==
    [][\A d \in DelReqs :
          (DeleteResponds(d) /\ del'[d].filename \in KnownFilenames
               /\ del'[d].solo /\ ~del'[d].fault) =>
              \A k \in Range(ThumbnailSizes) : <<del'[d].filename, k>> \notin files'
      ]_vars

\* C23: in every state metadata.likesCount of a post is the number of distinct
\* users in its likes list, also after two toggleLike calls of one user that ran
\* together.
C23_LikesCountMatches ==
    \A p \in DOMAIN tsPosts : tsPosts[p].likesCount = Cardinality(tsPosts[p].likes)

\* C30: whenever no request of the TypeScript flow is in progress, stats.postsCount
\* of every user is the number of the user's existing posts, drafts included.
C30_TsCounterMatches ==
    (\A r \in TsReqs : tsReq[r].pc = "idle") =>
        \A a \in Authors :
            tsCount[a] = Cardinality({p \in DOMAIN tsPosts : tsPosts[p].author = a})

====
